---- MODULE Spec2Model ----
(***************************************************************************)
(* NeuroCrypto-Analyst: the candle cache of services/technicalService.ts   *)
(* (fetchCryptoData, enrichDataWithIndicators, generateHistory) and the    *)
(* streaming dashboard of components/TechnicalDashboard.tsx.               *)
(***************************************************************************)
EXTENDS Integers, Sequences, FiniteSets, TLC

(***************************************************************************)
(* Numbers.  A JavaScript number is an integer tagged "num" (a quotient is  *)
(* rounded down to a whole unit); NaN and undefined are tagged values of   *)
(* their own.                                                              *)
(***************************************************************************)
Num(v) == [t |-> "num", v |-> v]
NaN == [t |-> "NaN", v |-> 0]
Undefined == [t |-> "undefined", v |-> 0]
IsNum(x) == x.t = "num"

\* The strings a payload carries in a numeric field.
NumStrings == {"144", "145", "146", "10"}

\* parseFloat: the number a string denotes, NaN when it denotes none.
ParseFloat(s) ==
    CASE s = "144" -> Num(144)
      [] s = "145" -> Num(145)
      [] s = "146" -> Num(146)
      [] s = "10" -> Num(10)
      [] OTHER -> NaN

RECURSIVE SqrtIter(_, _, _)
SqrtIter(n, lo, hi) ==
    IF lo >= hi THEN lo
    ELSE LET mid == (lo + hi + 1) \div 2
         IN IF mid * mid <= n THEN SqrtIter(n, mid, hi) ELSE SqrtIter(n, lo, mid - 1)

\* Math.sqrt, rounded down.
MathSqrt(n) == SqrtIter(n, 0, IF n < 46340 THEN n ELSE 46340)

(***************************************************************************)
(* Program constants.                                                      *)
(***************************************************************************)
CACHE_DURATION == 60 * 1000
MinutesPerYear == 365 * 24 * 60
MsPerMinute == 60 * 1000

\* COINS, its first entries: COINS[0] is the coin selected at mount.
COINS == <<"BTC", "ETH">>
Symbols == {COINS[i] : i \in 1..Len(COINS)}
Timeframes == {"1h", "1m"}

IntervalMs(interval) == IF interval = "1m" THEN MsPerMinute ELSE 60 * MsPerMinute

\* basePriceMap[symbol.toUpperCase()] || 100
BasePrice(symbol) ==
    CASE symbol = "BTC" -> 92000
      [] symbol = "ETH" -> 3400
      [] symbol = "SOL" -> 145
      [] OTHER -> 100

(***************************************************************************)
(* Candles (ChartDataPoint) and their labels.                              *)
(***************************************************************************)
\* toLocaleDateString(month, day) + toLocaleTimeString(hour, minute): the
\* label keeps the minute of the year and drops the year and the seconds.
FormatDate(timestamp) ==
    [fmt |-> "locale", v |-> (timestamp \div MsPerMinute) % MinutesPerYear]

\* toISOString().split('T')[0] + ' ' + getHours() + ':00' of generateHistory
IsoHourLabel(hour) == [fmt |-> "iso", v |-> hour]

Candle(date, price, high, low, volume) ==
    [date |-> date, price |-> price, high |-> high, low |-> low, volume |-> volume,
     sma20 |-> Undefined, sma50 |-> Undefined,
     bollingerUpper |-> Undefined, bollingerLower |-> Undefined]

Base(c) == <<c.date, c.price, c.high, c.low, c.volume>>

RECURSIVE SumRange(_, _, _)
SumRange(prices, lo, hi) ==
    IF lo > hi THEN 0 ELSE prices[hi].v + SumRange(prices, lo, hi - 1)

\* The mean that sums one close fewer than it divides by
MeanLastButOne(prices, idx, n) ==
    IF \A k \in (idx - n + 1)..idx : IsNum(prices[k])
    THEN Num(SumRange(prices, idx - n + 2, idx) \div n)
    ELSE NaN

\* slice.slice(-n).reduce((a, b) => a + b, 0) / n over prices[1..idx]
MeanLast(prices, idx, n) ==
    IF \A k \in (idx - n + 1)..idx : IsNum(prices[k])
    THEN Num(SumRange(prices, idx - n + 1, idx) \div n)
    ELSE NaN

Abs(x) == IF x < 0 THEN -x ELSE x

\* squaredDiffs.reduce((a, b) => a + b, 0), each difference taken in units of q
RECURSIVE SumSquaredDiffs(_, _, _, _, _)
SumSquaredDiffs(prices, lo, hi, mean, q) ==
    IF lo > hi THEN 0
    ELSE (Abs(prices[hi].v - mean) \div q) * (Abs(prices[hi].v - mean) \div q)
         + SumSquaredDiffs(prices, lo, hi - 1, mean, q)

\* Math.sqrt(squaredDiffs.reduce(...) / n).  A floating-point number keeps its
\* leading digits whatever its size: differences of 10000 units or more are
\* squared in hundreds.
StdDevLast(prices, idx, n, mean) ==
    IF IsNum(mean) /\ \A k \in (idx - n + 1)..idx : IsNum(prices[k])
    THEN LET q == IF \E k \in (idx - n + 1)..idx : Abs(prices[k].v - mean.v) >= 10000
                  THEN 100 ELSE 1
         IN Num(q * MathSqrt(SumSquaredDiffs(prices, idx - n + 1, idx, mean.v, q) \div n))
    ELSE NaN

Plus(a, b) == IF IsNum(a) /\ IsNum(b) THEN Num(a.v + b.v) ELSE NaN
Minus(a, b) == IF IsNum(a) /\ IsNum(b) THEN Num(a.v - b.v) ELSE NaN
Twice(a) == IF IsNum(a) THEN Num(2 * a.v) ELSE NaN

EnrichPoint(data, prices, index) ==
    LET sma20 == IF index >= 20 THEN MeanLast(prices, index, 20) ELSE Undefined
        sma50 == IF index >= 50 THEN MeanLast(prices, index, 50) ELSE Undefined
        stdDev == StdDevLast(prices, index, 20, sma20)
    IN [data[index] EXCEPT
          !.sma20 = sma20,
          !.sma50 = sma50,
          !.bollingerUpper =
              IF index >= 20 THEN Plus(sma20, Twice(stdDev)) ELSE Undefined,
          !.bollingerLower =
              IF index >= 20 THEN Minus(sma20, Twice(stdDev)) ELSE Undefined]

enrichDataWithIndicators(data) ==
    LET prices == [i \in 1..Len(data) |-> data[i].price]
    IN [index \in 1..Len(data) |-> EnrichPoint(data, prices, index)]

(***************************************************************************)
(* generateHistory: the synthetic fallback.  Math.random() is the draw     *)
(* (2 * Rand(seed, k) + 1) / 8 of the k-th call of a run seeded by seed.   *)
(***************************************************************************)
Seeds == {0, 1}
Rand(seed, k) == (seed + k + (k \div 4)) % 4

\* The loop runs i = days * 24, ..., 0 with days = limit / 24.
SimLength(limit) == limit + 1

\* One iteration of the loop: the bar that follows a close of currentPrice.
SimBar(currentPrice, step, seed) ==
    LET k == 4 * (step - 1)
        changeMilli == 1000 + (((2 * Rand(seed, k) + 1) * 40) \div 8) - 20
        dailyVol == (currentPrice * 20) \div 1000
        next == (currentPrice * changeMilli) \div 1000
        high == next + (((2 * Rand(seed, k + 1) + 1) * dailyVol) \div 8)
        low == next - (((2 * Rand(seed, k + 2) + 1) * dailyVol) \div 8)
        volume == ((2 * Rand(seed, k + 3) + 1) * 1000000) \div 8
    IN Candle(IsoHourLabel(step), Num(next),
              Num(IF high > next THEN high ELSE next),
              Num(IF low < next THEN low ELSE next),
              Num(volume))

\* The bars of iterations lo..hi, the walk standing at currentPrice before lo.
RECURSIVE SimWalk(_, _, _, _)
SimWalk(currentPrice, lo, hi, seed) ==
    IF lo > hi THEN <<>>
    ELSE IF lo = hi THEN <<SimBar(currentPrice, lo, seed)>>
    ELSE LET mid == (lo + hi) \div 2
             left == SimWalk(currentPrice, lo, mid, seed)
         IN left \o SimWalk(left[Len(left)].price.v, mid + 1, hi, seed)

generateHistory(basePrice, limit, seed) ==
    SimWalk(basePrice, 1, SimLength(limit), seed)

(***************************************************************************)
(* The source: the klines endpoint fetch() contacts, and what it answers.  *)
(***************************************************************************)
MaxCalls == 3
LastBucket == 200

Variants == {0}
FailureKinds == {"networkError", "notOk", "badJson", "notArray"}

\* The number of rows a 200 OK body holds for a request of `limit` rows.
BodyLens(limit) == {0, limit - 1, limit}

Outcomes(limit) ==
    [kind : {"ok"}, n : BodyLens(limit), variant : Variants, seed : {0}]
    \cup [kind : FailureKinds, n : {0}, variant : {0}, seed : Seeds]

PriceString(variant, i) ==
    CASE (i + variant) % 3 = 0 -> "144"
      [] (i + variant) % 3 = 1 -> "145"
      [] OTHER -> "146"

\* Row d of the body: d[0] open time, d[2] high, d[3] low, d[4] close, d[5] volume.
KlineBody(interval, n, variant) ==
    [i \in 1..n |->
        [openTime |-> (LastBucket - n + i) * IntervalMs(interval),
         high |-> "146", low |-> "144", close |-> PriceString(variant, i),
         volume |-> "10"]]

\* rawData.map(d => ({date, price, high, low, volume}))
ParseKlines(rawData) ==
    [i \in 1..Len(rawData) |->
        Candle(FormatDate(rawData[i].openTime), ParseFloat(rawData[i].close),
               ParseFloat(rawData[i].high), ParseFloat(rawData[i].low),
               ParseFloat(rawData[i].volume))]

Limits == {60, 200}

\* The try block's result for every body, and the catch block's for every
\* run of the generator (tabulated once: both are functions of their inputs).
LiveSeries ==
    [interval \in Timeframes, n \in UNION {BodyLens(l) : l \in Limits}, variant \in Variants |->
        enrichDataWithIndicators(ParseKlines(KlineBody(interval, n, variant)))]

SimSeries ==
    [symbol \in Symbols, limit \in Limits, seed \in Seeds |->
        enrichDataWithIndicators(generateHistory(BasePrice(symbol), limit, seed))]

(***************************************************************************)
(* State.                                                                  *)
(***************************************************************************)
VARIABLES
    now,          \* Date.now(), in ms
    DATA_CACHE,   \* cacheKey -> [timestamp, data], defined on the keys stored
    calls,        \* the fetchCryptoData calls awaiting the source
    log,          \* history: every call made, in order: its key, start, request
    lastDone,     \* history: the call that returned last, and what it returned
    mounted,      \* the dashboard instance mounted (0: none), and how many were
    props,        \* its props: customData (an array, or NoArray) and showBotsOnly
    selection,    \* useState: selectedCoin.symbol and timeframe
    history,      \* useState: the published series
    indicators,   \* useState: the published TechnicalIndicators
    mlPrediction, \* useState: the published MLPrediction
    backtestResult, \* useState: the published BacktestResult
    wsRef,        \* wsRef.current: a socket of sockets, or 0 for null
    sockets,      \* every WebSocket constructed: its stream and whether it is open
    effect,       \* the commit under way: "idle", "cleanup" or "run", and the cleanup kept
    events,       \* how many selections and stream messages have been handled
    received,     \* history: the message ws.onmessage handled last
    fetchedFor,   \* history: the symbol and timeframe the published series was fetched for
    feed,         \* a series handed to the indicator engine, point by point
    trial,        \* a call of predictSignalXGBoost: its arguments and its result
    runs          \* runBacktest on two series: the loop's variables, step by step

cacheVars == <<now, DATA_CACHE, calls, log, lastDone>>
published == <<history, indicators, mlPrediction, backtestResult>>
dashVars == <<mounted, props, selection, history, indicators, mlPrediction,
              backtestResult, wsRef, sockets, effect, events, received, fetchedFor>>
benchVars == <<feed, trial, runs>>
vars == <<cacheVars, dashVars, benchVars>>

Instants ==
    {0, CACHE_DURATION - 1, CACHE_DURATION, CACHE_DURATION + 1000}

CacheKey(symbol, interval, marketType) == <<symbol, interval, marketType>>

FreshMutant(cache, key, t) ==
    key \in DOMAIN cache /\ t - cache[key].timestamp <= CACHE_DURATION

\* DATA_CACHE[cacheKey] && (now - DATA_CACHE[cacheKey].timestamp < CACHE_DURATION)
Fresh(cache, key, t) ==
    key \in DOMAIN cache /\ t - cache[key].timestamp < CACHE_DURATION

\* DATA_CACHE[cacheKey] = { timestamp: now, data: enrichedData }
CachePut(cache, key, t, data) ==
    [k \in DOMAIN cache \cup {key} |->
        IF k = key THEN [timestamp |-> t, data |-> data] ELSE cache[k]]

CacheAfterCatchMutant(cache, key, t, data) == CachePut(cache, key, t, data)

\* The catch block returns the simulation and stores nothing.
CacheAfterCatch(cache, key, t, data) == cache

Call(id, who, symbol, interval, limit, marketType) ==
    [id |-> id, who |-> who, symbol |-> symbol, interval |-> interval,
     limit |-> limit, marketType |-> marketType, now |-> now]

KeyOf(c) == CacheKey(c.symbol, c.interval, c.marketType)

\* The array the call returns once the source has answered with outcome o.
\* Fetched arrays are never written after they are built, so an array is
\* named by what built it; Deref gives its candles.
Returned(c, o) ==
    IF o.kind = "ok"
    THEN <<"live", c.interval, o.n, o.variant>>
    ELSE <<"sim", c.symbol, c.limit, o.seed>>

NoArray == <<"none", "", 0, 0>>

\* An imported dataset: parseCSV keeps a date and a price per row.
CsvLens == {2, 51}
CsvSeries ==
    [n \in CsvLens |->
        [i \in 1..n |->
            Candle([fmt |-> "csv", v |-> i], Num(100 + (i % 3)),
                   Undefined, Undefined, Undefined)]]

Deref(ref) ==
    CASE ref[1] = "live" -> LiveSeries[ref[2], ref[3], ref[4]]
      [] ref[1] = "sim" -> SimSeries[ref[2], ref[3], ref[4]]
      [] ref[1] = "csv" -> CsvSeries[ref[3]]
      [] OTHER -> <<>>

\* Lines 16-23: the cache check; a miss leaves the call awaiting fetch(url).
\* data' is what a hit returns.
FetchStart(who, symbol, interval, limit, marketType) ==
    LET key == CacheKey(symbol, interval, marketType)
        id == Len(log) + 1
        hit == Fresh(DATA_CACHE, key, now)
    IN /\ log' = Append(log, [key |-> key, at |-> now, issued |-> ~hit])
       /\ calls' = IF hit THEN calls
                   ELSE calls \cup {Call(id, who, symbol, interval, limit, marketType)}
       /\ UNCHANGED <<now, DATA_CACHE>>

\* Lines 38-71: the source answers; the result is stored, or the catch block runs.
FetchSettle(c, o) ==
    /\ calls' = calls \ {c}
    /\ DATA_CACHE' =
          IF o.kind = "ok"
          THEN CachePut(DATA_CACHE, KeyOf(c), c.now, Returned(c, o))
          ELSE CacheAfterCatch(DATA_CACHE, KeyOf(c), c.now, Returned(c, o))
    /\ UNCHANGED <<now, log>>

(***************************************************************************)
(* The dashboard (TechnicalDashboard): its derived views and its merge of  *)
(* a streamed candle.                                                      *)
(***************************************************************************)
MaxMounts == 1
MaxEvents == 1
MaxTicks == 2
MaxWindow == 200
MinPublished == 50
InitialBalance == 10000

\* A view is computed from a series alone (and from the Math.random() draws
\* of the run): a published view is kept as the application that produced it,
\* which stands for any result the draws allow.  AnalysisOf(data) is the
\* value of performTechnicalAnalysis(data) kept unevaluated, PredictionOf and
\* BacktestOf those of predictSignalXGBoost and runBacktest.
NoView == [set |-> FALSE, data |-> <<>>, currentPrice |-> Undefined,
           initialBalance |-> 0]

AnalysisOf(data) ==
    [NoView EXCEPT !.set = TRUE, !.data = data]

PredictionOf(newIndicators, currentPrice) ==
    [NoView EXCEPT !.set = TRUE, !.data = newIndicators.data,
                   !.currentPrice = currentPrice]

BacktestOf(data, initialBalance) ==
    [NoView EXCEPT !.set = TRUE, !.data = data, !.initialBalance = initialBalance]

\* Lines 166-172: the candle of a kline payload k.
NewCandle(k) ==
    Candle(FormatDate(k.t), ParseFloat(k.c), ParseFloat(k.h), ParseFloat(k.l),
           ParseFloat(k.v))

\* { ...lastCandle, ...newCandle }
Spread(lastCandle, newCandle) ==
    [lastCandle EXCEPT !.date = newCandle.date, !.price = newCandle.price,
                       !.high = newCandle.high, !.low = newCandle.low,
                       !.volume = newCandle.volume]

\* What fetchedFor records: no series yet, an imported one, or the
\* selectedCoin.symbol and timeframe of the call that fetched it.
OfNothing == [symbol |-> "", timeframe |-> ""]
OfImport == [symbol |-> "", timeframe |-> "import"]

NoMessage == [kind |-> "none", t |-> 0, c |-> "", h |-> "", l |-> "", v |-> ""]

AlwaysAppend(prev, newCandle) == Append(prev, newCandle)

\* Lines 162-184: update the last candle or append, then shift once.
MergeTick(prev, newCandle) ==
    LET lastCandle == prev[Len(prev)]
    IN IF lastCandle.date = newCandle.date
       THEN [prev EXCEPT ![Len(prev)] = Spread(lastCandle, newCandle)]
       ELSE LET pushed == Append(prev, newCandle)
            IN IF Len(pushed) > MaxWindow THEN Tail(pushed) ELSE pushed

\* No series is being fed to the engine, no call of the predictor or of the
\* backtest is under way.
BenchIdle ==
    /\ feed = [shape |-> "none", series |-> <<>>]
    /\ trial = [phase |-> "none"]
    /\ runs = [phase |-> "none"]

\* The state before any call and before the dashboard is first mounted.
AtRest ==
    /\ now = 0
    /\ DATA_CACHE = <<>>
    /\ calls = {}
    /\ log = <<>>
    /\ lastDone = [key |-> <<>>, kind |-> "none", data |-> NoArray]
    /\ mounted = [inst |-> 0, up |-> FALSE]
    /\ props = [customData |-> NoArray, showBotsOnly |-> FALSE]
    /\ selection = [symbol |-> COINS[1], timeframe |-> "1h"]
    /\ history = <<>>
    /\ indicators = NoView
    /\ mlPrediction = NoView
    /\ backtestResult = NoView
    /\ wsRef = 0
    /\ sockets = <<>>
    /\ effect = [pc |-> "idle", cleanup |-> FALSE]
    /\ events = 0
    /\ received = NoMessage
    /\ fetchedFor = OfNothing

Init == AtRest /\ BenchIdle

(***************************************************************************)
(* The service under an arbitrary client (the two call sites of the        *)
(* dashboard: scanMarket and updateMarketData).                            *)
(***************************************************************************)
CallSites == {<<"BTC", "1h", 60, "SPOT">>, <<"BTC", "1h", 200, "FUTURES">>}

Advance ==
    /\ \E t \in Instants : t > now /\ now' = t
    /\ UNCHANGED <<benchVars, DATA_CACHE, calls, log, lastDone, dashVars>>

ClientCall(site) ==
    /\ Len(log) < MaxCalls
    /\ FetchStart(0, site[1], site[2], site[3], site[4])
    /\ LET key == CacheKey(site[1], site[2], site[4])
       IN lastDone' =
             IF Fresh(DATA_CACHE, key, now)
             THEN [key |-> key, kind |-> "hit", data |-> DATA_CACHE[key].data]
             ELSE lastDone
    /\ UNCHANGED <<dashVars, benchVars>>

SourceAnswers(c, o) ==
    /\ c \in calls
    /\ c.who = 0
    /\ FetchSettle(c, o)
    /\ UNCHANGED <<dashVars, benchVars>>
    /\ lastDone' = [key |-> KeyOf(c), kind |-> IF o.kind = "ok" THEN "live" ELSE "sim",
                    data |-> Returned(c, o)]

CacheNext ==
    \/ Advance
    \/ \E site \in CallSites : ClientCall(site)
    \/ \E c \in calls : \E o \in Outcomes(c.limit) : SourceAnswers(c, o)

SpecCache == Init /\ [][CacheNext]_vars

(***************************************************************************)
(* The dashboard's life: mount, the WEBSOCKET & DATA SYNC effect and its    *)
(* cleanup, the user's selections, the fetch it awaits and the stream.     *)
(* A commit (cleanup, then effect) runs to its end before any other event. *)
(***************************************************************************)
CloseNothing(socks, ref) == socks

\* ws.close() on wsRef.current, when there is one
Close(socks, ref) ==
    IF ref = 0 THEN socks ELSE [socks EXCEPT ![ref].open = FALSE]

\* The record of the series setHistory(data) publishes (line 65)
Stamp(data, for) ==
    fetchedFor' = IF Len(data) > MinPublished THEN for ELSE fetchedFor

\* Lines 65-78: the series and the views computed from it are published.
Publish(data) ==
    /\ history' = data
    /\ indicators' = AnalysisOf(data)
    /\ mlPrediction' =
          PredictionOf(AnalysisOf(data),
                               data[Len(data)].price)
    /\ backtestResult' = BacktestOf(data, InitialBalance)

\* updateMarketData that publishes whatever it holds
ContinueUnguarded(data) == Publish(data)

\* Lines 64-92: updateMarketData once it holds data
Continue(data) ==
    IF Len(data) > MinPublished THEN Publish(data) ELSE UNCHANGED published

Imports == {NoArray} \cup {<<"csv", "", n, 0>> : n \in CsvLens}

Mount(customData, showBotsOnly) ==
    /\ ~mounted.up
    /\ mounted.inst < MaxMounts
    /\ mounted' = [inst |-> mounted.inst + 1, up |-> TRUE]
    /\ props' = [customData |-> customData, showBotsOnly |-> showBotsOnly]
    /\ selection' = [symbol |-> COINS[1], timeframe |-> "1h"]
    /\ history' = <<>>
    /\ indicators' = NoView
    /\ mlPrediction' = NoView
    /\ backtestResult' = NoView
    /\ wsRef' = 0
    /\ effect' = [pc |-> "run", cleanup |-> FALSE]
    /\ fetchedFor' = OfNothing
    /\ UNCHANGED <<benchVars, sockets, events, received, cacheVars>>

\* Lines 139-214, the effect body: updateMarketData() up to its await, then
\* the socket; a cache hit resumes updateMarketData before any other event.
RunEffect ==
    /\ mounted.up
    /\ effect.pc = "run"
    /\ IF props.customData # NoArray
       THEN /\ Continue(Deref(props.customData))
            /\ Stamp(Deref(props.customData), OfImport)
            /\ UNCHANGED cacheVars
       ELSE LET key == CacheKey(selection.symbol, selection.timeframe, "FUTURES")
            IN /\ Len(log) < MaxCalls
               /\ FetchStart(mounted.inst, selection.symbol, selection.timeframe,
                             MaxWindow, "FUTURES")
               /\ IF Fresh(DATA_CACHE, key, now)
                  THEN /\ Continue(Deref(DATA_CACHE[key].data))
                       /\ Stamp(Deref(DATA_CACHE[key].data), selection)
                  ELSE UNCHANGED <<published, fetchedFor>>
               /\ UNCHANGED lastDone
    /\ IF props.customData = NoArray /\ ~props.showBotsOnly
       THEN /\ sockets' =
                  Append(Close(sockets, wsRef),
                         [symbol |-> selection.symbol,
                          timeframe |-> selection.timeframe, open |-> TRUE])
            /\ wsRef' = Len(sockets) + 1
            /\ effect' = [pc |-> "idle", cleanup |-> TRUE]
       ELSE /\ UNCHANGED <<sockets, wsRef>>
            /\ effect' = [pc |-> "idle", cleanup |-> FALSE]
    /\ UNCHANGED <<benchVars, mounted, props, selection, events, received>>

\* Lines 210-212: the cleanup the last run of the effect returned, if any
RunCleanup ==
    /\ mounted.up
    /\ effect.pc = "cleanup"
    /\ sockets' = IF effect.cleanup THEN Close(sockets, wsRef) ELSE sockets
    /\ effect' = [pc |-> "run", cleanup |-> FALSE]
    /\ UNCHANGED <<benchVars, mounted, props, selection, published, fetchedFor, wsRef, events, received,
                   cacheVars>>

\* setSelectedCoin (line 232): a new value re-runs the effect
SelectCoin(symbol) ==
    /\ mounted.up
    /\ effect.pc = "idle"
    /\ symbol # selection.symbol
    /\ selection' = [selection EXCEPT !.symbol = symbol]
    /\ effect' = [effect EXCEPT !.pc = "cleanup"]
    /\ events' = events + 1
    /\ UNCHANGED <<benchVars, mounted, props, published, fetchedFor, wsRef, sockets, received,
                   cacheVars>>

\* setTimeframe (line 314)
SetTimeframe(timeframe) ==
    /\ mounted.up
    /\ effect.pc = "idle"
    /\ timeframe # selection.timeframe
    /\ selection' = [selection EXCEPT !.timeframe = timeframe]
    /\ effect' = [effect EXCEPT !.pc = "cleanup"]
    /\ events' = events + 1
    /\ UNCHANGED <<benchVars, mounted, props, published, fetchedFor, wsRef, sockets, received,
                   cacheVars>>

\* The view is left (App.tsx lines 181-187): the cleanup runs.
Unmount ==
    /\ mounted.up
    /\ effect.pc = "idle"
    /\ mounted' = [mounted EXCEPT !.up = FALSE]
    /\ sockets' = IF effect.cleanup THEN Close(sockets, wsRef) ELSE sockets
    /\ effect' = [pc |-> "idle", cleanup |-> FALSE]
    /\ UNCHANGED <<benchVars, props, selection, published, fetchedFor, wsRef, events, received,
                   cacheVars>>

\* The source answers a call of updateMarketData, which resumes after its
\* await; an instance that is no longer mounted publishes nothing.
DashSettle(c, o) ==
    /\ c \in calls
    /\ c.who # 0
    /\ effect.pc = "idle"
    /\ FetchSettle(c, o)
    /\ IF mounted.up /\ mounted.inst = c.who
       THEN /\ Continue(Deref(Returned(c, o)))
            /\ Stamp(Deref(Returned(c, o)), [symbol |-> c.symbol, timeframe |-> c.interval])
       ELSE UNCHANGED <<published, fetchedFor>>
    /\ UNCHANGED <<benchVars, lastDone, mounted, props, selection, wsRef, sockets, effect, events,
                   received>>

\* What a stream sends: text that is no JSON, an event that is no kline, or
\* a kline k of the bucket opened at k.t.
KlineFields ==
    {[c |-> "146", v |-> "10"], [c |-> "abc", v |-> "10"], [c |-> "146", v |-> ""]}

Messages(timeframe) ==
    {[NoMessage EXCEPT !.kind = kind] : kind \in {"unparseable", "other"}}
    \cup {[kind |-> "kline", t |-> (LastBucket + d) * IntervalMs(timeframe),
           c |-> f.c, h |-> "146", l |-> "144", v |-> f.v] :
            d \in {-1, 0, 1}, f \in KlineFields}

\* The updater that returns the merged series and sets no view
OnKlineKeepingViews(k) ==
    IF Len(history) = 0
    THEN UNCHANGED published
    ELSE /\ history' = enrichDataWithIndicators(MergeTick(history, NewCandle(k)))
         /\ UNCHANGED <<indicators, mlPrediction, backtestResult>>

\* Lines 159-206: the setHistory updater of a kline message
OnKline(k) ==
    IF Len(history) = 0
    THEN UNCHANGED published
    ELSE LET enrichedHistory == enrichDataWithIndicators(MergeTick(history, NewCandle(k)))
         IN Publish(enrichedHistory)

\* ws.onmessage whose merge writes the arrays the cache stores
WsMessageWritingCache(id, msg) ==
    /\ mounted.up
    /\ effect.pc = "idle"
    /\ id \in DOMAIN sockets
    /\ sockets[id].open
    /\ IF msg.kind = "kline" THEN OnKline(msg) ELSE UNCHANGED published
    /\ events' = events + 1
    /\ received' = msg
    /\ DATA_CACHE' = [key \in DOMAIN DATA_CACHE |-> [DATA_CACHE[key] EXCEPT !.data = NoArray]]
    /\ UNCHANGED <<benchVars, mounted, props, selection, fetchedFor, wsRef, sockets, effect,
                   now, calls, log, lastDone>>

\* ws.onmessage (lines 154-208) of an open socket
WsMessage(id, msg) ==
    /\ mounted.up
    /\ effect.pc = "idle"
    /\ id \in DOMAIN sockets
    /\ sockets[id].open
    /\ IF msg.kind = "kline" THEN OnKline(msg) ELSE UNCHANGED published
    /\ events' = events + 1
    /\ received' = msg
    /\ UNCHANGED <<benchVars, mounted, props, selection, fetchedFor, wsRef, sockets, effect,
                   cacheVars>>

\* The messages of the life-cycle specification: the bucket of the last
\* candle fetched, then the next one.
FewMessages(timeframe) ==
    {m \in Messages(timeframe) :
        m.kind = "kline" /\ m.c = "146" /\ m.v = "10"
        /\ m.t >= LastBucket * IntervalMs(timeframe)}

\* The answers of the life-cycle specification: an empty body, a full one,
\* and a failure.
FewOutcomes(limit) ==
    {o \in Outcomes(limit) :
        o.kind \in {"ok", "networkError"} /\ o.n \in {0, limit} /\ o.seed = 0}

DashNext ==
    \/ \E customData \in Imports, showBotsOnly \in BOOLEAN : Mount(customData, showBotsOnly)
    \/ RunEffect
    \/ RunCleanup
    \/ events < MaxEvents /\ \E symbol \in Symbols : SelectCoin(symbol)
    \/ events < MaxEvents /\ \E timeframe \in Timeframes : SetTimeframe(timeframe)
    \/ Unmount
    \/ \E c \in calls : \E o \in FewOutcomes(c.limit) : DashSettle(c, o)
    \/ /\ events < MaxEvents
       /\ \E id \in DOMAIN sockets :
             \E msg \in FewMessages(sockets[id].timeframe) : WsMessage(id, msg)

SpecDash == Init /\ [][DashNext]_vars

(***************************************************************************)
(* The stream alone: a dashboard mounted on (BTC, 1h) whose fetch has      *)
(* returned and been published, and the messages of its socket.            *)
(***************************************************************************)
FirstKey == CacheKey(COINS[1], "1h", "FUTURES")

\* The state once the first call of updateMarketData has returned `data`.
Streaming(data) ==
    /\ mounted = [inst |-> 1, up |-> TRUE]
    /\ props = [customData |-> NoArray, showBotsOnly |-> FALSE]
    /\ selection = [symbol |-> COINS[1], timeframe |-> "1h"]
    /\ history = Deref(data)
    /\ indicators = AnalysisOf(history)
    /\ mlPrediction =
          PredictionOf(indicators, history[Len(history)].price)
    /\ backtestResult = BacktestOf(history, InitialBalance)
    /\ wsRef = 1
    /\ sockets = <<[symbol |-> COINS[1], timeframe |-> "1h", open |-> TRUE]>>
    /\ effect = [pc |-> "idle", cleanup |-> TRUE]
    /\ events = 0
    /\ received = NoMessage
    /\ fetchedFor = selection
    /\ BenchIdle
    /\ now = 0
    /\ calls = {}
    /\ log = <<[key |-> FirstKey, at |-> 0, issued |-> TRUE]>>
    /\ lastDone = [key |-> <<>>, kind |-> "none", data |-> NoArray]
    /\ DATA_CACHE =
          IF data[1] = "live" THEN CachePut(<<>>, FirstKey, 0, data) ELSE <<>>

FirstFetches ==
    {<<"live", "1h", n, v>> : n \in BodyLens(MaxWindow) \ {0}, v \in Variants}
    \cup {<<"sim", COINS[1], MaxWindow, seed>> : seed \in Seeds}

StreamInit == \E data \in FirstFetches : Streaming(data)

StreamNext == events < MaxTicks /\ \E msg \in Messages("1h") : WsMessage(1, msg)

SpecStream == StreamInit /\ [][StreamNext]_vars

(***************************************************************************)
(* The selection changed under the stream: the dashboard of StreamInit,    *)
(* the user's selections, the effect they re-run, the fetches it awaits    *)
(* and the messages of its sockets.                                        *)
(***************************************************************************)
MaxSteps == 3

SwitchNext ==
    \/ events < MaxSteps /\ \E symbol \in Symbols : SelectCoin(symbol)
    \/ events < MaxSteps /\ \E timeframe \in Timeframes : SetTimeframe(timeframe)
    \/ RunCleanup
    \/ RunEffect
    \/ \E c \in calls : \E o \in FewOutcomes(c.limit) : DashSettle(c, o)
    \/ /\ events < MaxSteps
       /\ \E id \in DOMAIN sockets :
             \E msg \in FewMessages(sockets[id].timeframe) : WsMessage(id, msg)

SpecSwitch == StreamInit /\ [][SwitchNext]_vars

(***************************************************************************)
(* Floating point.  The indicator engine computes with JavaScript numbers: *)
(* binary floating point, every operation rounded to the nearest           *)
(* representable value (ties to even).  A number is s * m * 2^e with a     *)
(* significand m of Precision bits (53 in the program, narrowed here), or  *)
(* NaN, or an infinity signed s.                                           *)
(***************************************************************************)
Precision == 14
Spare == 30 - Precision

Sign(x) == IF x > 0 THEN 1 ELSE IF x < 0 THEN -1 ELSE 0

FZero == [t |-> "num", s |-> 1, m |-> 0, e |-> 0]
FNaN == [t |-> "NaN", s |-> 1, m |-> 0, e |-> 0]
FInf(s) == [t |-> "inf", s |-> s, m |-> 0, e |-> 0]

IsNaN(x) == x.t = "NaN"
IsFinite(x) == x.t = "num"

BitLen(M) == CHOOSE k \in 0..30 : M < 2 ^ k /\ (k = 0 \/ M >= 2 ^ (k - 1))

\* The number nearest to s * (M + f) * 2^e, where 0 < f < 1 if sticky and
\* f = 0 if not; M holds a bit more than Precision bits whenever sticky.
Round(s, M, e, sticky) ==
    IF M = 0 THEN FZero
    ELSE LET len == BitLen(M)
         IN IF len <= Precision
            THEN [t |-> "num", s |-> s, m |-> M * 2 ^ (Precision - len),
                  e |-> e - (Precision - len)]
            ELSE LET k == len - Precision
                     q == M \div 2 ^ k
                     rem == M % 2 ^ k
                     half == 2 ^ (k - 1)
                     up == rem > half \/ (rem = half /\ (sticky \/ q % 2 = 1))
                     r == IF up THEN q + 1 ELSE q
                 IN IF r = 2 ^ Precision
                    THEN [t |-> "num", s |-> s, m |-> 2 ^ (Precision - 1), e |-> e + k + 1]
                    ELSE [t |-> "num", s |-> s, m |-> r, e |-> e + k]

FromInt(v) == Round(Sign(v), Abs(v), 0, FALSE)

FNeg(a) == IF IsNaN(a) \/ (IsFinite(a) /\ a.m = 0) THEN a ELSE [a EXCEPT !.s = -a.s]

\* hi + lo for finite non-zero operands, hi the one of the larger exponent
AddAligned(hi, lo) ==
    LET diff == hi.e - lo.e
        left == IF diff < Spare THEN diff ELSE Spare - 1
        right == diff - left
        Mhi == hi.m * 2 ^ left
        Mlo == IF right > Precision THEN 0 ELSE lo.m \div 2 ^ right
        sticky == IF right > Precision THEN TRUE ELSE lo.m % 2 ^ right # 0
        sum == IF hi.s = lo.s THEN Mhi + Mlo
               ELSE IF sticky THEN Mhi - Mlo - 1 ELSE Mhi - Mlo
    IN IF sum < 0 THEN Round(lo.s, -sum, hi.e - left, sticky)
       ELSE Round(hi.s, sum, hi.e - left, sticky)

FAdd(a, b) ==
    IF IsNaN(a) \/ IsNaN(b) THEN FNaN
    ELSE IF ~IsFinite(a) /\ ~IsFinite(b) THEN IF a.s = b.s THEN a ELSE FNaN
    ELSE IF ~IsFinite(a) THEN a
    ELSE IF ~IsFinite(b) THEN b
    ELSE IF a.m = 0 THEN b
    ELSE IF b.m = 0 THEN a
    ELSE IF a.e >= b.e THEN AddAligned(a, b) ELSE AddAligned(b, a)

FSub(a, b) == FAdd(a, FNeg(b))

FMul(a, b) ==
    IF IsNaN(a) \/ IsNaN(b) THEN FNaN
    ELSE IF ~IsFinite(a) \/ ~IsFinite(b)
         THEN IF (IsFinite(a) /\ a.m = 0) \/ (IsFinite(b) /\ b.m = 0)
              THEN FNaN ELSE FInf(a.s * b.s)
    ELSE Round(a.s * b.s, a.m * b.m, a.e + b.e, FALSE)

FDiv(a, b) ==
    IF IsNaN(a) \/ IsNaN(b) THEN FNaN
    ELSE IF ~IsFinite(a) THEN IF IsFinite(b) THEN FInf(a.s * b.s) ELSE FNaN
    ELSE IF ~IsFinite(b) THEN FZero
    ELSE IF b.m = 0 THEN IF a.m = 0 THEN FNaN ELSE FInf(a.s)
    ELSE Round(a.s * b.s, (a.m * 2 ^ Spare) \div b.m, a.e - b.e - Spare,
               (a.m * 2 ^ Spare) % b.m # 0)

\* Math.sqrt
FSqrt(a) ==
    IF IsNaN(a) \/ (a.s = -1 /\ ~(IsFinite(a) /\ a.m = 0)) THEN FNaN
    ELSE IF ~IsFinite(a) \/ a.m = 0 THEN a
    ELSE LET k == IF (a.e - Spare) % 2 = 0 THEN Spare ELSE Spare - 1
             M == a.m * 2 ^ k
             r == MathSqrt(M)
         IN Round(1, r, (a.e - k) \div 2, r * r # M)

\* a < b; every comparison with NaN is false
FLt(a, b) ==
    \E d \in {FSub(a, b)} : ~IsNaN(d) /\ d.s = -1 /\ (d.m # 0 \/ ~IsFinite(d))

FGt(a, b) == FLt(b, a)
FGe(a, b) == ~IsNaN(a) /\ ~IsNaN(b) /\ ~FLt(a, b)

\* Math.abs, Math.max (NaN when an argument is)
FAbs(a) == [a EXCEPT !.s = 1]
FMax(a, b) == IF IsNaN(a) \/ IsNaN(b) THEN FNaN ELSE IF FLt(a, b) THEN b ELSE a

\* The literal n / d (as 1 / 10 for 0.1): the number nearest to it
Decimal(n, d) == FDiv(FromInt(n), FromInt(d))

\* The number a candle field holds: a whole price of a fetched candle, or a
\* number as it is; undefined counts as NaN in arithmetic.
AsNumber(x) ==
    IF x.t = "num" /\ "v" \in DOMAIN x THEN FromInt(x.v)
    ELSE IF x.t \in {"num", "inf"} THEN x
    ELSE FNaN

(***************************************************************************)
(* The indicator engine (lines 184-275).                                   *)
(***************************************************************************)
\* F(v), the value v worked out before F is entered: a statement that
\* follows an assignment.
With(v, F(_)) == CHOOSE result \in {F(x) : x \in {v}} : TRUE

\* slice.reduce((a, b) => a + b, acc) over data[lo..hi], from left to right:
\* the left half is summed first, and the right half goes on from its sum.
RECURSIVE Reduce(_, _, _, _)
Reduce(data, lo, hi, acc) ==
    IF lo > hi THEN acc
    ELSE IF lo = hi THEN FAdd(acc, data[lo])
    ELSE With(Reduce(data, lo, (lo + hi) \div 2, acc),
              LAMBDA left : Reduce(data, (lo + hi) \div 2 + 1, hi, left))

\* The mean of every point handed in, whatever the period
SmaOfAll(data, period) ==
    IF Len(data) < period THEN FromInt(0)
    ELSE FDiv(Reduce(data, 1, Len(data), FZero), FromInt(Len(data)))

calculateSMA(data, period) ==
    IF Len(data) < period THEN FromInt(0)
    ELSE FDiv(Reduce(data, Len(data) - period + 1, Len(data), FZero), FromInt(period))

calculateStdDev(data, period) ==
    IF Len(data) < period THEN FromInt(0)
    ELSE With(calculateSMA(data, period), LAMBDA sma :
           LET first == Len(data) - period + 1
               squaredDiffs ==
                   [k \in 1..period |->
                       FMul(FSub(data[first + k - 1], sma), FSub(data[first + k - 1], sma))]
               avgSquaredDiff == FDiv(Reduce(squaredDiffs, 1, period, FZero), FromInt(period))
           IN FSqrt(avgSquaredDiff))

\* The loop of calculateRSI over i = lo..hi: <<gains, losses>>.  A turn adds
\* diff to gains and nothing to losses, or -diff to losses and nothing to gains.
GainsLosses(prices, lo, hi) ==
    LET turns == hi - lo + 1
        Split(diff) ==
            <<Reduce([k \in 1..turns |->
                         IF FGe(diff[k], FromInt(0)) THEN diff[k] ELSE FZero],
                     1, turns, FZero),
              Reduce([k \in 1..turns |->
                         IF FGe(diff[k], FromInt(0)) THEN FZero ELSE FNeg(diff[k])],
                     1, turns, FZero)>>
    IN Split([k \in 1..turns |-> FSub(prices[lo + k - 1], prices[lo + k - 2])])

RsiPeriod == 14

calculateRSI(prices, period) ==
    LET Rsi(avgGain, avgLoss) ==
            IF avgLoss = FZero THEN FromInt(100)
            ELSE FSub(FromInt(100),
                      FDiv(FromInt(100), FAdd(FromInt(1), FDiv(avgGain, avgLoss))))
        Averaged(acc) == Rsi(FDiv(acc[1], FromInt(period)), FDiv(acc[2], FromInt(period)))
    IN IF Len(prices) < period + 1 THEN FromInt(50)
       ELSE Averaged(GainsLosses(prices, Len(prices) - period + 1, Len(prices)))

\* x || y on a candle field: undefined, NaN and 0 give y
OrElse(x, y) == IF ~IsNaN(AsNumber(x)) /\ AsNumber(x) # FZero THEN x ELSE y

\* const tr = Math.max(...) of the turn i (counted from 1) of calculateATR
TrueRange(data, i) ==
    LET Tr(high, low, prevClose) ==
            FMax(FSub(high, low),
                 FMax(FAbs(FSub(high, prevClose)), FAbs(FSub(low, prevClose))))
    IN Tr(AsNumber(OrElse(data[i].high, data[i].price)),
          AsNumber(OrElse(data[i].low, data[i].price)),
          AsNumber(data[i - 1].price))

\* The loop of calculateATR over i = lo..hi: trSum
TrSum(data, lo, hi) ==
    Reduce([k \in 1..(hi - lo + 1) |-> TrueRange(data, lo + k - 1)], 1, hi - lo + 1, FZero)

calculateATR(data, period) ==
    IF Len(data) < period + 1 THEN FromInt(0)
    ELSE FDiv(TrSum(data, Len(data) - period + 1, Len(data)), FromInt(period))

performTechnicalAnalysis(data) ==
    LET Snap(rsi, sma20, sma50, stdDev20, atr, macdValue) ==
            LET trend == IF FGt(sma20, sma50) THEN "UP"
                         ELSE IF FLt(sma20, sma50) THEN "DOWN" ELSE "SIDEWAYS"
                signal == IF FLt(rsi, FromInt(30)) /\ trend = "UP" THEN "BUY"
                          ELSE IF FGt(rsi, FromInt(70)) /\ trend = "DOWN" THEN "SELL"
                          ELSE "NEUTRAL"
            IN [rsi |-> rsi, sma20 |-> sma20, sma50 |-> sma50,
                macd |-> [value |-> macdValue,
                          signal |-> FMul(macdValue, Decimal(9, 10)),
                          histogram |-> FMul(macdValue, Decimal(1, 10))],
                bollinger |-> [middle |-> sma20,
                               upper |-> FAdd(sma20, FMul(stdDev20, FromInt(2))),
                               lower |-> FSub(sma20, FMul(stdDev20, FromInt(2)))],
                atr |-> atr, trend |-> trend, signal |-> signal]
    IN With([i \in 1..Len(data) |-> AsNumber(data[i].price)], LAMBDA prices :
         Snap(calculateRSI(prices, RsiPeriod), calculateSMA(prices, 20),
              calculateSMA(prices, 50), calculateStdDev(prices, 20),
              calculateATR(data, 14),
              FSub(calculateSMA(prices, 12), calculateSMA(prices, 26))))


(***************************************************************************)
(* predictSignalXGBoost (lines 280-327).  jitter is Math.random() * 5.     *)
(***************************************************************************)
trendScoreOf(newIndicators) ==
    IF newIndicators.trend = "UP" THEN 1 ELSE IF newIndicators.trend = "DOWN" THEN -1 ELSE 0

bbWidthOf(newIndicators) ==
    FDiv(FSub(newIndicators.bollinger.upper, newIndicators.bollinger.lower),
         newIndicators.bollinger.middle)

\* The decision tree that leaves out the momentum node's else branch
ScoreWithoutElse(newIndicators, currentPrice) ==
    LET trendScore == trendScoreOf(newIndicators)
        squeeze == FLt(bbWidthOf(newIndicators), Decimal(5, 100))
    IN (IF trendScore = 1 /\ FGt(currentPrice, newIndicators.sma50) THEN 30 ELSE 0)
       - (IF trendScore = -1 /\ FLt(currentPrice, newIndicators.sma50) THEN 30 ELSE 0)
       + (IF FLt(newIndicators.rsi, FromInt(30)) THEN 40 ELSE 0)
       - (IF FGt(newIndicators.rsi, FromInt(70)) THEN 40 ELSE 0)
       + (IF squeeze /\ FGt(currentPrice, newIndicators.bollinger.upper) THEN 20 ELSE 0)
       - (IF squeeze /\ FLt(currentPrice, newIndicators.bollinger.lower) THEN 20 ELSE 0)
       + (IF FGt(newIndicators.macd.histogram, FZero) THEN 10 ELSE 0)

\* The variable score when the decision tree has run: 0 and what every
\* node adds to it or takes from it
Score(newIndicators, currentPrice) ==
    LET trendScore == trendScoreOf(newIndicators)
        squeeze == FLt(bbWidthOf(newIndicators), Decimal(5, 100))
    IN (IF trendScore = 1 /\ FGt(currentPrice, newIndicators.sma50) THEN 30 ELSE 0)
       - (IF trendScore = -1 /\ FLt(currentPrice, newIndicators.sma50) THEN 30 ELSE 0)
       + (IF FLt(newIndicators.rsi, FromInt(30)) THEN 40 ELSE 0)
       - (IF FGt(newIndicators.rsi, FromInt(70)) THEN 40 ELSE 0)
       + (IF squeeze /\ FGt(currentPrice, newIndicators.bollinger.upper) THEN 20 ELSE 0)
       - (IF squeeze /\ FLt(currentPrice, newIndicators.bollinger.lower) THEN 20 ELSE 0)
       + (IF FGt(newIndicators.macd.histogram, FZero) THEN 10 ELSE -10)

\* Math.max(0, Math.min(Math.abs(score), 98)) without the noise
ConfidenceWithoutNoise(score, jitter) ==
    FMax(FZero, FromInt(IF Abs(score) < 98 THEN Abs(score) ELSE 98))

\* Math.max(0, Math.min(Math.abs(score), 98) - Math.random() * 5)
Confidence(score, jitter) ==
    FMax(FZero, FSub(FromInt(IF Abs(score) < 98 THEN Abs(score) ELSE 98), jitter))

predictSignalXGBoost(newIndicators, currentPrice, jitter) ==
    LET Predicted(score) ==
            [signal |-> IF score > 25 THEN "BUY" ELSE IF score < -25 THEN "SELL" ELSE "HOLD",
             confidence |-> Confidence(score, jitter),
             features |-> [rsiNormalized |->
                               FDiv(FSub(newIndicators.rsi, FromInt(50)), FromInt(50)),
                           trendStrength |-> trendScoreOf(newIndicators),
                           volatility |-> bbWidthOf(newIndicators)]]
    IN Predicted(Score(newIndicators, currentPrice))

(***************************************************************************)
(* runBacktest (lines 332-393): the variables of its loop, and one turn of *)
(* the loop at index i (counted from 0) of data.                           *)
(***************************************************************************)
startIdx == 50

\* The variables of the loop before its first turn.  liquidations is history:
\* how many turns have sold a position.
BacktestStart(initialBalance) ==
    [balance |-> initialBalance, shares |-> FZero, trades |-> 0, winningTrades |-> 0,
     maxBalance |-> initialBalance, maxDrawdown |-> FZero, equityCurve |-> <<>>,
     liquidations |-> 0]

\* data.slice(0, i + 1) read as the whole of data
WholeSeries(data, i) == data

\* data.slice(0, i + 1)
HistorySlice(data, i) == SubSeq(data, 1, i + 1)

\* The equity that counts the cash and leaves the shares out
EquityInCash(before, after, currentPrice) == after.balance

\* const currentEquity = balance + (shares * currentPrice)
CurrentEquity(before, after, currentPrice) ==
    FAdd(after.balance, FMul(after.shares, currentPrice))

\* Trading logics that differ from the program's in one respect each: when
\* a flat account enters, when a position is sold, which sale counts as won,
\* and how much of the balance is staked.
TradeVariant(b, prediction, currentPrice, enters, sells, won, stake) ==
    IF b.shares = FZero
    THEN IF enters
         THEN [b EXCEPT !.shares = FDiv(stake, currentPrice),
                        !.balance = FSub(b.balance, stake),
                        !.trades = b.trades + 1]
         ELSE b
    ELSE IF sells
         THEN [b EXCEPT !.balance = FAdd(b.balance, FMul(b.shares, currentPrice)),
                        !.winningTrades = IF won THEN b.winningTrades + 1
                                          ELSE b.winningTrades,
                        !.shares = FZero]
         ELSE b

TradeOnAnyBuy(b, prediction, currentPrice) ==
    TradeVariant(b, prediction, currentPrice, prediction.signal = "BUY",
                 prediction.signal = "SELL",
                 FGt(FMul(b.shares, currentPrice), b.maxBalance), b.balance)

TradeAtSixty(b, prediction, currentPrice) ==
    TradeVariant(b, prediction, currentPrice,
                 prediction.signal = "BUY" /\ FGe(prediction.confidence, FromInt(60)),
                 prediction.signal = "SELL",
                 FGt(FMul(b.shares, currentPrice), b.maxBalance), b.balance)

TradeSellNeedsConfidence(b, prediction, currentPrice) ==
    TradeVariant(b, prediction, currentPrice,
                 prediction.signal = "BUY" /\ FGt(prediction.confidence, FromInt(60)),
                 prediction.signal = "SELL" /\ FGt(prediction.confidence, FromInt(60)),
                 FGt(FMul(b.shares, currentPrice), b.maxBalance), b.balance)

TradeCountingEverySale(b, prediction, currentPrice) ==
    TradeVariant(b, prediction, currentPrice,
                 prediction.signal = "BUY" /\ FGt(prediction.confidence, FromInt(60)),
                 prediction.signal = "SELL", TRUE, b.balance)

TradeHalf(b, prediction, currentPrice) ==
    TradeVariant(b, prediction, currentPrice,
                 prediction.signal = "BUY" /\ FGt(prediction.confidence, FromInt(60)),
                 prediction.signal = "SELL",
                 FGt(FMul(b.shares, currentPrice), b.maxBalance),
                 FDiv(b.balance, FromInt(2)))

\* The trading logic of one turn: balance, shares, trades, winningTrades
Trade(b, prediction, currentPrice) ==
    IF b.shares = FZero
    THEN IF prediction.signal = "BUY" /\ FGt(prediction.confidence, FromInt(60))
         THEN [b EXCEPT !.shares = FDiv(b.balance, currentPrice),
                        !.balance = FZero,
                        !.trades = b.trades + 1]
         ELSE b
    ELSE IF prediction.signal = "SELL"
         THEN [b EXCEPT !.balance = FMul(b.shares, currentPrice),
                        !.winningTrades =
                            IF FGt(FMul(b.shares, currentPrice), b.maxBalance)
                            THEN b.winningTrades + 1 ELSE b.winningTrades,
                        !.shares = FZero]
         ELSE b

\* The end of a turn that never raises maxBalance
SettleKeepingPeak(traded, currentEquity, date) ==
    LET Drawn(dd) ==
            [traded EXCEPT
               !.maxDrawdown = IF FGt(dd, traded.maxDrawdown) THEN dd
                               ELSE traded.maxDrawdown,
               !.equityCurve = Append(traded.equityCurve,
                                      [date |-> date, price |-> currentEquity])]
    IN Drawn(FDiv(FSub(traded.maxBalance, currentEquity), traded.maxBalance))

\* The end of a turn: currentEquity, maxBalance, the drawdown, the curve
Settle(traded, currentEquity, date) ==
    LET Drawn(maxBalance, dd) ==
            [traded EXCEPT
               !.maxBalance = maxBalance,
               !.maxDrawdown = IF FGt(dd, traded.maxDrawdown) THEN dd
                               ELSE traded.maxDrawdown,
               !.equityCurve = Append(traded.equityCurve,
                                      [date |-> date, price |-> currentEquity])]
        Peak(maxBalance) ==
            Drawn(maxBalance, FDiv(FSub(maxBalance, currentEquity), maxBalance))
    IN Peak(IF FGt(currentEquity, traded.maxBalance) THEN currentEquity
            ELSE traded.maxBalance)

\* One turn of the loop: the variables b after it, and beside them the
\* turn's own constants indicators and prediction, and liquidations.
BacktestStep(b, data, i, jitter) ==
    With(performTechnicalAnalysis(HistorySlice(data, i)), LAMBDA newIndicators :
      With(predictSignalXGBoost(newIndicators, AsNumber(data[i + 1].price), jitter),
           LAMBDA prediction :
        With(Trade(b, prediction, AsNumber(data[i + 1].price)), LAMBDA traded :
          [indicators |-> newIndicators, prediction |-> prediction,
           liquidations |-> IF b.shares # FZero /\ traded.shares = FZero
                            THEN b.liquidations + 1 ELSE b.liquidations]
          @@ Settle(traded, CurrentEquity(b, traded, AsNumber(data[i + 1].price)),
                    data[i + 1].date))))

\* What runBacktest returns when its loop has left b
BacktestResult(b, initialBalance) ==
    LET finalEquity == IF Len(b.equityCurve) > 0
                       THEN b.equityCurve[Len(b.equityCurve)].price ELSE initialBalance
    IN [initialBalance |-> initialBalance,
        finalBalance |-> finalEquity,
        totalReturn |-> FMul(FDiv(FSub(finalEquity, initialBalance), initialBalance),
                             FromInt(100)),
        trades |-> b.trades,
        winningTrades |-> b.winningTrades,
        maxDrawdown |-> FMul(b.maxDrawdown, FromInt(100)),
        equityCurve |-> b.equityCurve]

(***************************************************************************)
(* runBacktest run on two series side by side, turn by turn, both drawing  *)
(* the same Math.random() values.                                          *)
(***************************************************************************)
MaxBars == 64

\* A candle of an imported or fetched series whose prices are whole
Bar(k, p) == Candle(k, Num(p), Num(p), Num(p), Num(1000))

Shapes == {"dip", "slump", "relapse", "rally", "climb", "level", "brief", "swing",
           "breakout"}

\* The close of bar k (counted from 1) of a series of the shape
PriceAt(shape, k) ==
    CASE shape = "dip" ->
           IF k <= 36 THEN 100 + 5 * (k - 1)
           ELSE IF k <= 53 THEN 275 - (k - 36)
           ELSE 258 + 3 * (k - 53)
      [] shape = "slump" ->
           IF k <= 36 THEN 100 + 5 * (k - 1)
           ELSE IF k <= 51 THEN 275 - (k - 36)
           ELSE IF k <= 54 THEN 260 - 80 * (k - 51)
           ELSE 20 + 15 * (k - 54)
      [] shape = "relapse" ->
           IF k <= 36 THEN 100 + 5 * (k - 1)
           ELSE IF k <= 51 THEN 275 - (k - 36)
           ELSE IF k <= 54 THEN 260 - 80 * (k - 51)
           ELSE IF k <= 61 THEN 20 + 15 * (k - 54)
           ELSE 125 - 30 * (k - 61)
      [] shape = "rally" ->
           IF k <= 36 THEN 100 + 5 * (k - 1)
           ELSE IF k <= 51 THEN 275 - (k - 36)
           ELSE 260 + 2 * (k - 51)
      [] shape = "climb" -> 100 + 2 * k
      [] shape = "level" -> 100
      [] shape = "brief" -> IF k <= 36 THEN 100 + 5 * (k - 1) ELSE 275 - (k - 36)
      [] shape = "swing" ->
           IF k <= 11 THEN 10
           ELSE IF k <= 25 THEN 420
           ELSE IF k <= 36 THEN 100 + 5 * (k - 1)
           ELSE IF k <= 51 THEN 275 - (k - 36)
           ELSE 260 + (k - 51)
      [] shape = "breakout" ->
           250 + (k \div 4) + 3 * (k % 2) + (IF k >= 55 THEN 5 ELSE 0)

BarsOf(shape) == IF shape = "brief" THEN startIdx + 1 ELSE MaxBars

TestSeries(shape) == [k \in 1..BarsOf(shape) |-> Bar(k, PriceAt(shape, k))]

Balances == {FromInt(10000), FZero}

\* Math.random() * 5: between 0 and 5, 5 excluded
Jitters == {FZero, Decimal(5, 2), Decimal(499, 100)}

BacktestCalled(a, b, initialBalance) ==
    /\ AtRest
    /\ feed = [shape |-> "none", series |-> <<>>]
    /\ trial = [phase |-> "none"]
    /\ runs = [phase |-> "loop", data |-> <<a, b>>, initialBalance |-> initialBalance,
               i |-> startIdx,
               loop |-> <<BacktestStart(initialBalance), BacktestStart(initialBalance)>>]

\* The pairs of series run side by side
Pairs ==
    {<<"dip", "slump">>, <<"dip", "rally">>, <<"slump", "relapse">>, <<"climb", "level">>,
     <<"brief", "dip">>, <<"rally", "rally">>, <<"swing", "slump">>,
     <<"dip", "breakout">>}

BacktestInit ==
    \E pair \in Pairs, initialBalance \in Balances :
        BacktestCalled(pair[1], pair[2], initialBalance)

\* for (let i = startIdx; i < data.length; i++) { ... }: one turn in each run
BacktestTurn(jitter) ==
    /\ runs.phase = "loop"
    /\ \E r \in 1..2 : runs.i < BarsOf(runs.data[r])
    /\ runs' = [runs EXCEPT
                  !.i = runs.i + 1,
                  !.loop = [r \in 1..2 |->
                              IF runs.i < BarsOf(runs.data[r])
                              THEN BacktestStep(runs.loop[r], TestSeries(runs.data[r]),
                                                runs.i, jitter)
                              ELSE runs.loop[r]]]
    /\ UNCHANGED <<cacheVars, dashVars, feed, trial>>

BacktestReturn ==
    /\ runs.phase = "loop"
    /\ \A r \in 1..2 : runs.i >= BarsOf(runs.data[r])
    /\ runs' = [runs EXCEPT
                  !.phase = "done",
                  !.loop = [r \in 1..2 |->
                              BacktestResult(runs.loop[r], runs.initialBalance)]]
    /\ UNCHANGED <<cacheVars, dashVars, feed, trial>>

BacktestNext ==
    \/ \E jitter \in Jitters : BacktestTurn(jitter)
    \/ BacktestReturn

SpecBacktest == BacktestInit /\ [][BacktestNext]_vars

(***************************************************************************)
(* The indicator engine fed a series point by point: after every point the *)
(* snapshot performTechnicalAnalysis gives of the points so far.           *)
(***************************************************************************)
MaxFeed == 60

Rising == {"rise", "surge", "stagger"}
Flat == {"flat", "flatBare", "flatZero", "flatCents"}
FeedShapes == Rising \cup Flat \cup {"fall", "zigzag", "gap"}

\* A candle that holds its close only, as a row of an imported file does
BareBar(k, price) == Candle(k, price, Undefined, Undefined, Undefined)

\* The candle k (counted from 1) of a series of the shape
FeedBar(shape, k) ==
    CASE shape = "rise" -> Bar(k, 100 + k)
      [] shape = "surge" -> Bar(k, 100 + 3 * k)
      [] shape = "stagger" -> Bar(k, 100 + 3 * k + (k % 3))
      [] shape = "flat" -> Bar(k, 100)
      [] shape = "flatBare" -> BareBar(k, Num(100))
      [] shape = "flatZero" -> Bar(k, 0)
      [] shape = "flatCents" -> BareBar(k, Decimal(15, 100))
      [] shape = "fall" -> Bar(k, 300 - 3 * k)
      [] shape = "zigzag" -> Bar(k, 150 + 10 * (k % 2) - (k % 5))
      [] shape = "gap" -> IF k % 30 = 0 THEN BareBar(k, NaN) ELSE Bar(k, 145 + (k % 4))

EngineInit ==
    /\ AtRest
    /\ \E shape \in FeedShapes :
          feed = [shape |-> shape, series |-> <<>>,
                  snapshot |-> performTechnicalAnalysis(<<>>)]
    /\ trial = [phase |-> "none"]
    /\ runs = [phase |-> "none"]

Feed ==
    /\ Len(feed.series) < MaxFeed
    /\ LET data == Append(feed.series, FeedBar(feed.shape, Len(feed.series) + 1))
       IN feed' = [feed EXCEPT !.series = data,
                               !.snapshot = performTechnicalAnalysis(data)]
    /\ UNCHANGED <<cacheVars, dashVars, trial, runs>>

EngineNext == Feed

SpecEngine == EngineInit /\ [][EngineNext]_vars

(***************************************************************************)
(* predictSignalXGBoost called once on a snapshot, a price and a draw of   *)
(* Math.random() * 5; the variable score is kept beside what is returned.  *)
(***************************************************************************)
RsiReadings == {FromInt(20), FromInt(50), FromInt(80), FNaN}
\* middle, upper and lower band: a squeeze, a wide band, the band of no data
Bands == {<<100, 102, 98>>, <<100, 110, 90>>, <<0, 0, 0>>}
Prices == {FromInt(85), FromInt(99), FromInt(101), FromInt(105), FromInt(115)}

Snapshot(trend, rsi, band, histogram) ==
    [rsi |-> rsi, sma20 |-> FromInt(band[1]), sma50 |-> FromInt(100),
     macd |-> [value |-> histogram, signal |-> FZero, histogram |-> histogram],
     bollinger |-> [middle |-> FromInt(band[1]), upper |-> FromInt(band[2]),
                    lower |-> FromInt(band[3])],
     atr |-> FZero, trend |-> trend, signal |-> "NEUTRAL"]

PredictInit ==
    /\ AtRest
    /\ feed = [shape |-> "none", series |-> <<>>]
    /\ runs = [phase |-> "none"]
    /\ \E trend \in {"UP", "DOWN", "SIDEWAYS"}, rsi \in RsiReadings, band \in Bands,
          histogram \in {FromInt(1), FZero, FromInt(-1)},
          currentPrice \in Prices, jitter \in Jitters :
          trial = [phase |-> "called",
                   indicators |-> Snapshot(trend, rsi, band, histogram),
                   currentPrice |-> currentPrice, jitter |-> jitter]

Predict ==
    /\ trial.phase = "called"
    /\ trial' = [phase |-> "returned", indicators |-> trial.indicators,
                 currentPrice |-> trial.currentPrice, jitter |-> trial.jitter,
                 score |-> Score(trial.indicators, trial.currentPrice),
                 prediction |-> predictSignalXGBoost(trial.indicators, trial.currentPrice,
                                                     trial.jitter)]
    /\ UNCHANGED <<cacheVars, dashVars, feed, runs>>

PredictNext == Predict

SpecPredict == PredictInit /\ [][PredictNext]_vars

(***************************************************************************)
(* Claims about the cache, checked under SpecCache.                        *)
(***************************************************************************)
SameKeyInOrder(i, j) ==
    i < j /\ log[i].key = log[j].key

\* C1: two calls for one key made within 60 s of each other issue only one
\* source request, and a call made 61 s after a call that issued a request
\* (no request for the key in between) issues a second one.
C1_CacheTtl ==
    \A i, j \in 1..Len(log) :
        SameKeyInOrder(i, j) =>
            /\ log[j].at - log[i].at <= CACHE_DURATION
                  => ~(log[i].issued /\ log[j].issued)
            /\ ( /\ log[i].issued
                 /\ log[j].at - log[i].at >= CACHE_DURATION + 1000
                 /\ \A m \in (i + 1)..(j - 1) :
                       log[m].key = log[i].key => ~log[m].issued )
                  => log[j].issued

\* C6: every call that has returned has returned a non-empty series.
C6_NonEmptySeries ==
    lastDone.kind # "none" => Len(Deref(lastDone.data)) > 0

CatchStep ==
    calls' # calls /\ Cardinality(calls') < Cardinality(calls) /\ lastDone'.kind = "sim"

StartStep == Len(log') = Len(log) + 1

\* What a call that starts in this step does, given whether the entry of its
\* key counts as fresh: a fresh entry is returned as it is, without a request;
\* otherwise the call issues a request and awaits it.
StartObeys(fresh) ==
    LET c == log'[Len(log')]
    IN IF fresh
       THEN /\ ~c.issued
            /\ calls' = calls
            /\ lastDone' = [key |-> c.key, kind |-> "hit",
                            data |-> DATA_CACHE[c.key].data]
       ELSE /\ c.issued
            /\ \E x \in calls' \ calls : KeyOf(x) = c.key

C10_NoDuplicateConcurrentFetch ==
    \A c1, c2 \in calls : KeyOf(c1) = KeyOf(c2) => c1 = c2

(***************************************************************************)
(* Claims about the socket, checked under SpecDash.                        *)
(***************************************************************************)
OpenSockets == {i \in DOMAIN sockets : sockets[i].open}

\* C3: at every moment at most one socket is open: the socket of an earlier
\* selection is closed by the time the next one is opened, the open socket
\* is the one wsRef holds, and no socket stays open once the dashboard is
\* unmounted.
C3_AtMostOneSubscription ==
    /\ Cardinality(OpenSockets) <= 1
    /\ \A i \in OpenSockets : i = wsRef /\ i = Len(sockets) /\ mounted.up

\* The selection has changed: the socket of the earlier selection is closed
\* and the socket of the new one is open.
C3_Witness ==
    \E i, j \in DOMAIN sockets :
        /\ i < j
        /\ ~sockets[i].open
        /\ sockets[j].open
        /\ <<sockets[i].symbol, sockets[i].timeframe>>
              # <<sockets[j].symbol, sockets[j].timeframe>>
        /\ mounted.inst = 1

(***************************************************************************)
(* Claims about the streaming merge, checked under SpecStream.             *)
(***************************************************************************)
TickStep == events' = events + 1 /\ received'.kind = "kline"

\* C2: once a tick has been merged, the published history holds at most 200
\* candles, whatever its length was when first published.
C2_WindowAtMost200 ==
    events > 0 => Len(history) <= MaxWindow

SameLabel(prev, newCandle) == prev[Len(prev)].date = newCandle.date

\* The last candle carries the tick's values.
EndsWith(next, newCandle) == Base(next[Len(next)]) = Base(newCandle)

\* The candles of prev from position `from` on come first in next, in order
\* and with their base values; `keep` of them.
KeepsEarlier(prev, next, from, keep) ==
    \A i \in 1..keep : Base(next[i]) = Base(prev[from + i - 1])

Replaced(prev, newCandle, next) ==
    /\ Len(next) = Len(prev)
    /\ EndsWith(next, newCandle)
    /\ KeepsEarlier(prev, next, 1, Len(prev) - 1)

Appended(prev, newCandle, next) ==
    /\ Len(next) = Len(prev) + 1
    /\ EndsWith(next, newCandle)
    /\ KeepsEarlier(prev, next, 1, Len(prev))

AppendedOldestDropped(prev, newCandle, next) ==
    /\ Len(next) = Len(prev)
    /\ EndsWith(next, newCandle)
    /\ KeepsEarlier(prev, next, 2, Len(prev) - 1)

\* C4 as amended: a tick whose label equals the last candle's replaces the
\* last candle, the length and the earlier candles unchanged; any other tick
\* is appended as the new last candle, and then, when the length exceeds 200,
\* the oldest candle is dropped: the length grows by one only while the
\* window holds fewer than 200 candles.  Earlier candles keep their order and
\* base values.
C4_MergeReplacesOrAppendsThenShifts ==
    [][TickStep =>
         LET newCandle == NewCandle(received')
         IN IF SameLabel(history, newCandle)
            THEN Replaced(history, newCandle, history')
            ELSE IF Len(history) + 1 > MaxWindow
                 THEN AppendedOldestDropped(history, newCandle, history')
                 ELSE Appended(history, newCandle, history')]_vars

\* C4 as stated: a tick with another label always makes the window one
\* candle longer.
C4_MergeReplacesOrAppends ==
    [][TickStep =>
         LET newCandle == NewCandle(received')
         IN IF SameLabel(history, newCandle)
            THEN Replaced(history, newCandle, history')
            ELSE Appended(history, newCandle, history')]_vars

\* A tick of a new bucket has been merged into a full window: the window
\* still holds 200 candles, the oldest one gone.
C4_Witness ==
    /\ received.kind = "kline"
    /\ events = 1
    /\ Len(history) = MaxWindow
    /\ history[Len(history)].date = FormatDate((LastBucket + 1) * IntervalMs("1h"))
    /\ history[1].date = FormatDate((LastBucket - MaxWindow + 2) * IntervalMs("1h"))

\* C5: the published series never holds two candles of one label and its
\* labels are in chronological order.
C5_NoDuplicateLabelsInOrder ==
    /\ \A i, j \in 1..Len(history) : i < j => history[i].date # history[j].date
    /\ \A i \in 1..(Len(history) - 1) :
          history[i].date.fmt = history[i + 1].date.fmt
              => history[i].date.v < history[i + 1].date.v

InvalidTick(m) ==
    \/ m.kind # "kline"
    \/ \E s \in {m.c, m.h, m.l, m.v} : s \notin NumStrings

\* C9: a message that is malformed, or whose close, high, low or volume is no
\* number, leaves the published series and the views computed from it as
\* they were.
C9_InvalidTickDropped ==
    [][(events' = events + 1 /\ InvalidTick(received'))
         => published' = published]_vars

(***************************************************************************)
(* Claims about runBacktest, checked under SpecBacktest.                   *)
(***************************************************************************)
\* The close of the bar the run r handled last, n turns after its start
LastClose(r, n) == AsNumber(TestSeries(runs.data[r])[startIdx + n].price)

\* C11: after every turn of runBacktest the equity recorded for the turn is
\* balance + shares * currentPrice, and neither balance nor shares is
\* negative, on every series of non-negative prices and for every
\* initialBalance >= 0.
C11_EquityIsCashPlusHoldings ==
    runs.phase = "loop" =>
        \A r \in 1..2 :
            LET b == runs.loop[r]
                n == Len(b.equityCurve)
            IN /\ FGe(b.balance, FZero)
               /\ FGe(b.shares, FZero)
               /\ n > 0 =>
                     b.equityCurve[n].price
                         = FAdd(b.balance, FMul(b.shares, LastClose(r, n)))

\* A run that has bought holds shares and no cash; the other one of the pair
\* has sold again and holds cash only.
C11_Witness ==
    /\ runs.phase = "loop"
    /\ runs.loop[1].trades = 1 /\ FGt(runs.loop[1].shares, FZero)
    /\ runs.loop[1].balance = FZero
    /\ runs.loop[2].trades = 1 /\ runs.loop[2].shares = FZero
    /\ FGt(runs.loop[2].balance, FZero)

\* How many leading bars the two series of the pair have in common
Agreed ==
    LET a == TestSeries(runs.data[1])
        b == TestSeries(runs.data[2])
        most == IF Len(a) < Len(b) THEN Len(a) ELSE Len(b)
    IN CHOOSE p \in 0..most :
          /\ \A k \in 1..p : a[k] = b[k]
          /\ p = most \/ a[p + 1] # b[p + 1]

\* C12: runBacktest does not look ahead: on two series that agree on the
\* indices 0..i, with the same draws of Math.random(), the balance, the
\* shares, trades, winningTrades and the equity curve entries of every turn
\* up to index i are the same, whatever the candles after i are.
C12_NoLookAhead ==
    runs.phase = "loop" =>
        LET a == runs.loop[1]
            b == runs.loop[2]
        IN /\ \A n \in 1..Len(a.equityCurve) :
                 (n <= Len(b.equityCurve) /\ startIdx + n <= Agreed)
                     => a.equityCurve[n] = b.equityCurve[n]
           /\ runs.i <= Agreed =>
                 /\ a.balance = b.balance
                 /\ a.shares = b.shares
                 /\ a.trades = b.trades
                 /\ a.winningTrades = b.winningTrades

\* Two series part after the index 60; both runs have bought at the index 50
\* and sold at the index 60, the last index the series have in common.
C12_Witness ==
    /\ runs.phase = "loop"
    /\ runs.i = Agreed
    /\ Agreed > startIdx + 1
    /\ Agreed < BarsOf(runs.data[1]) /\ Agreed < BarsOf(runs.data[2])
    /\ runs.loop[1].trades = 1 /\ runs.loop[1].shares = FZero
    /\ runs.loop[2].trades = 1 /\ runs.loop[2].shares = FZero

(***************************************************************************)
(* Claims about imported data, checked under SpecDash.                     *)
(***************************************************************************)
Imported == mounted.up /\ props.customData # NoArray

\* C13: while an imported dataset is present the dashboard has no streaming
\* subscription and merges no tick, and once the effect has run the
\* published history is the imported data when that has more than 50
\* points; an import of 50 points or fewer is never published, the
\* history stays empty.
C13_ImportShownWhenLongEnough ==
    Imported =>
        /\ OpenSockets = {}
        /\ history \in {<<>>, Deref(props.customData)}
        /\ effect.pc = "idle" =>
              history = IF Len(Deref(props.customData)) > MinPublished
                        THEN Deref(props.customData) ELSE <<>>

\* C13 as stated: the published history is the imported data, whatever its
\* length.
C13_ImportShown ==
    (Imported /\ effect.pc = "idle") =>
        /\ OpenSockets = {}
        /\ history = Deref(props.customData)

\* An import is on show, and still is after another coin has been selected
\* and the effect has run again.
C13_Witness ==
    /\ Imported
    /\ effect.pc = "idle"
    /\ events > 0
    /\ selection.symbol # COINS[1]
    /\ Len(history) > MinPublished
    /\ history = Deref(props.customData)
    /\ sockets = <<>>

(***************************************************************************)
(* A claim about empty cache entries, checked under SpecCache.             *)
(***************************************************************************)
\* C14: a cache entry that holds an empty series counts as a miss: a call
\* for its key made within the TTL issues a source request instead of
\* returning the entry.
C14_EmptyEntryIsMiss ==
    [][StartStep =>
         LET c == log'[Len(log')]
         IN ( /\ c.key \in DOMAIN DATA_CACHE
              /\ now - DATA_CACHE[c.key].timestamp < CACHE_DURATION
              /\ Len(Deref(DATA_CACHE[c.key].data)) = 0 )
                => c.issued /\ lastDone' = lastDone]_vars

(***************************************************************************)
(* A claim about enrichDataWithIndicators, checked under SpecStream on the *)
(* series the dashboard publishes.                                         *)
(***************************************************************************)
\* The n closes that end at the point i (counted from 1) of the history
Closes(i, n) == [k \in 1..n |-> history[i - n + k].price]

RECURSIVE SeqSum(_)
SeqSum(w) == IF w = <<>> THEN 0 ELSE Head(w).v + SeqSum(Tail(w))

\* The mean of a window of closes, and the two bands around it
MeanOf(w) ==
    IF \A k \in 1..Len(w) : IsNum(w[k]) THEN Num(SeqSum(w) \div Len(w)) ELSE NaN

UpperOf(w) == Plus(MeanOf(w), Twice(StdDevLast(w, Len(w), Len(w), MeanOf(w))))
LowerOf(w) == Minus(MeanOf(w), Twice(StdDevLast(w, Len(w), Len(w), MeanOf(w))))

\* C15: in an enriched series the point of index i (counted from 0) has
\* sma20, bollingerUpper and bollingerLower undefined when i < 19 and sma50
\* undefined when i < 49; a field that is defined is the value the 20 (or
\* 50) closes ending at i give, and depends on no other point.
C15_WindowsAreFullAndCausal ==
    \A i \in 1..Len(history) :
        /\ history[i].sma20 = IF i < 20 THEN Undefined ELSE MeanOf(Closes(i, 20))
        /\ history[i].sma50 = IF i < 50 THEN Undefined ELSE MeanOf(Closes(i, 50))
        /\ history[i].bollingerUpper
              = IF i < 20 THEN Undefined ELSE UpperOf(Closes(i, 20))
        /\ history[i].bollingerLower
              = IF i < 20 THEN Undefined ELSE LowerOf(Closes(i, 20))

\* A tick has been merged and the series enriched again: the windows of the
\* points 19 and 49 are full, those of the points before them are not.
C15_Witness ==
    /\ events > 0
    /\ received.kind = "kline"
    /\ Len(history) >= 50
    /\ history[19].sma20 = Undefined /\ IsNum(history[20].sma20)
    /\ history[19].bollingerUpper = Undefined /\ IsNum(history[20].bollingerUpper)
    /\ history[49].sma50 = Undefined /\ IsNum(history[50].sma50)
    /\ history[50].sma20 # history[50].bollingerUpper

(***************************************************************************)
(* Claims about the indicator engine, checked under SpecEngine.            *)
(***************************************************************************)
\* C16 (as stated): on a strictly rising series the trend is UP for every
\* prefix that ends at index 49 or later, and the RSI is above 50 for every
\* prefix.
C16_RisingReadsBullish ==
    (feed.shape \in Rising /\ Len(feed.series) >= 1) =>
        /\ (Len(feed.series) >= 50 => feed.snapshot.trend = "UP")
        /\ FGt(feed.snapshot.rsi, FromInt(50))

\* C16 (amended): on a strictly rising series the trend is UP for every
\* prefix that ends at index 49 or later; the RSI is exactly 50 while the
\* prefix has fewer than 15 points and exactly 100 from 15 points on.
C16_RisingReadsBullishOnceWarm ==
    (feed.shape \in Rising /\ Len(feed.series) >= 1) =>
        /\ (Len(feed.series) >= 50 => feed.snapshot.trend = "UP")
        /\ feed.snapshot.rsi =
              FromInt(IF Len(feed.series) < RsiPeriod + 1 THEN 50 ELSE 100)

C16_Witness ==
    /\ feed.shape = "stagger"
    /\ Len(feed.series) = 60
    /\ feed.snapshot.trend = "UP"
    /\ feed.snapshot.rsi = FromInt(100)

\* C17: on a series whose price never changes the snapshot has atr = 0 and,
\* once 20 points are present, bollinger.upper = bollinger.lower = sma20.
C17_FlatBandsCollapse ==
    feed.shape \in Flat =>
        /\ feed.snapshot.atr = FZero
        /\ Len(feed.series) >= 20 =>
              /\ feed.snapshot.bollinger.upper = feed.snapshot.sma20
              /\ feed.snapshot.bollinger.lower = feed.snapshot.sma20

\* C18: calculateRSI gives a value between 0 and 100 for every series of at
\* least one price.
C18_RsiWithinRange ==
    Len(feed.series) >= 1 =>
        /\ FGe(feed.snapshot.rsi, FromInt(0))
        /\ FGe(FromInt(100), feed.snapshot.rsi)

(***************************************************************************)
(* Claims about the prediction, checked under SpecPredict.                 *)
(***************************************************************************)
TrendNode(ind, price) ==
    IF ind.trend = "UP" /\ FGt(price, ind.sma50) THEN 30
    ELSE IF ind.trend = "DOWN" /\ FLt(price, ind.sma50) THEN -30 ELSE 0

ReversionNode(ind) ==
    IF FLt(ind.rsi, FromInt(30)) THEN 40 ELSE IF FGt(ind.rsi, FromInt(70)) THEN -40 ELSE 0

SqueezeNode(ind, price) ==
    IF FLt(FDiv(FSub(ind.bollinger.upper, ind.bollinger.lower), ind.bollinger.middle),
           Decimal(5, 100))
    THEN (IF FGt(price, ind.bollinger.upper) THEN 20 ELSE 0)
         - (IF FLt(price, ind.bollinger.lower) THEN 20 ELSE 0)
    ELSE 0

MomentumNode(ind) == IF FGt(ind.macd.histogram, FZero) THEN 10 ELSE -10

\* C19: the score is the sum of the trend, mean-reversion, squeeze and
\* momentum nodes, and the signal is BUY exactly when the score is above 25,
\* SELL exactly when it is below -25, HOLD otherwise.
C19_ScoreIsSumOfNodes ==
    trial.phase = "returned" =>
        /\ trial.score = TrendNode(trial.indicators, trial.currentPrice)
                          + ReversionNode(trial.indicators)
                          + SqueezeNode(trial.indicators, trial.currentPrice)
                          + MomentumNode(trial.indicators)
        /\ (trial.prediction.signal = "BUY") <=> (trial.score > 25)
        /\ (trial.prediction.signal = "SELL") <=> (trial.score < -25)
        /\ (trial.prediction.signal = "HOLD") <=> (trial.score \in -25..25)

C19_Witness ==
    /\ trial.phase = "returned"
    /\ TrendNode(trial.indicators, trial.currentPrice) = -30
    /\ ReversionNode(trial.indicators) = -40
    /\ SqueezeNode(trial.indicators, trial.currentPrice) = -20
    /\ MomentumNode(trial.indicators) = -10
    /\ trial.score = -100
    /\ trial.prediction.signal = "SELL"

\* C20: the confidence is min(|score|, 98) less the jitter, or 0 when that
\* is negative, and so lies between 0 and 98.
C20_ConfidenceInRange ==
    trial.phase = "returned" =>
        LET capped == IF Abs(trial.score) < 98 THEN Abs(trial.score) ELSE 98
        IN /\ trial.prediction.confidence =
                 (IF FGt(trial.jitter, FromInt(capped)) THEN FZero
                  ELSE FSub(FromInt(capped), trial.jitter))
           /\ FGe(trial.prediction.confidence, FZero)
           /\ FGe(FromInt(98), trial.prediction.confidence)

C20_Witness ==
    /\ trial.phase = "returned"
    /\ Abs(trial.score) = 100
    /\ FGt(trial.jitter, FromInt(4))
    /\ FGt(trial.prediction.confidence, FromInt(93))
    /\ FLt(trial.prediction.confidence, FromInt(94))

(***************************************************************************)
(* Claims about the published views, checked under SpecStream.             *)
(***************************************************************************)
\* C21: after every tick the stream has delivered, the published history is
\* enriched over its whole window, and the published indicators, prediction
\* and backtest result are the ones computed from that very history.
C21_ViewsOfPublishedHistory ==
    received.kind = "kline" =>
        /\ history = enrichDataWithIndicators(history)
        /\ indicators = AnalysisOf(history)
        /\ mlPrediction = PredictionOf(AnalysisOf(history), history[Len(history)].price)
        /\ backtestResult = BacktestOf(history, InitialBalance)

\* Two ticks have been merged, the second one opening a new bucket, and the
\* views are those of the window that ends with it.
C21_Witness ==
    /\ received.kind = "kline"
    /\ events = MaxTicks
    /\ history[Len(history)].date = FormatDate(received.t)
    /\ history[Len(history)].price = ParseFloat(received.c)
    /\ received.t = (LastBucket + 1) * IntervalMs("1h")
    /\ indicators.data = history
    /\ indicators.data # Deref(<<"live", "1h", MaxWindow, 0>>)

(***************************************************************************)
(* Claims about the trading logic of runBacktest, checked under            *)
(* SpecBacktest.  A turn of the run r takes runs.loop[r] to runs.loop[r]'  *)
(* on the bar of index runs.i.                                             *)
(***************************************************************************)
TurnOf(r) ==
    /\ runs.phase = "loop" /\ runs'.phase = "loop"
    /\ runs.i < BarsOf(runs.data[r])

Before(r) == runs.loop[r]
After(r) == runs.loop'[r]
TurnPrice(r) == AsNumber(TestSeries(runs.data[r])[runs.i + 1].price)

Account(b) == <<b.balance, b.shares, b.trades, b.winningTrades>>

Confident(prediction) == FGt(prediction.confidence, FromInt(60))

\* C22: at a turn that starts flat, the account enters exactly when the
\* signal is BUY and the confidence is above 60: then shares = balance /
\* price, balance = 0 and trades is one more; at every other flat turn
\* balance, shares, trades and winningTrades stay as they were.
C22_FlatEntersOnConfidentBuy ==
    [][\A r \in 1..2 :
          (TurnOf(r) /\ Before(r).shares = FZero) =>
              IF After(r).prediction.signal = "BUY" /\ Confident(After(r).prediction)
              THEN /\ After(r).shares = FDiv(Before(r).balance, TurnPrice(r))
                   /\ After(r).balance = FZero
                   /\ After(r).trades = Before(r).trades + 1
                   /\ After(r).winningTrades = Before(r).winningTrades
              ELSE Account(After(r)) = Account(Before(r))]_vars

\* One run has entered on a BUY of confidence above 60, and the other one,
\* flat too, has seen a BUY of confidence 60 or less and stays out.
C22_Witness ==
    /\ runs.phase = "loop"
    /\ runs.i > startIdx
    /\ \E r \in 1..2 :
          /\ runs.loop[r].trades = 1 /\ FGt(runs.loop[r].shares, FZero)
          /\ runs.loop[r].balance = FZero
    /\ \E r \in 1..2 :
          /\ runs.loop[r].prediction.signal = "BUY"
          /\ ~Confident(runs.loop[r].prediction)
          /\ runs.loop[r].trades = 0 /\ runs.loop[r].shares = FZero
          /\ runs.loop[r].balance = runs.initialBalance

\* C23: at a turn that starts with a position, SELL sells every share at
\* the bar's price, whatever the confidence (balance = shares * price,
\* shares = 0); HOLD and BUY leave balance, shares, trades and
\* winningTrades as they were.
C23_HeldSellsOnSell ==
    [][\A r \in 1..2 :
          (TurnOf(r) /\ FGt(Before(r).shares, FZero)) =>
              IF After(r).prediction.signal = "SELL"
              THEN /\ After(r).balance = FMul(Before(r).shares, TurnPrice(r))
                   /\ After(r).shares = FZero
                   /\ After(r).trades = Before(r).trades
              ELSE Account(After(r)) = Account(Before(r))]_vars

\* A position that was kept while the price moved has been sold on a SELL
\* of confidence 60 or less.
C23_Witness ==
    /\ runs.phase = "loop"
    /\ \E r \in 1..2 :
          /\ runs.loop[r].trades = 1 /\ runs.loop[r].liquidations = 1
          /\ runs.loop[r].prediction.signal = "SELL"
          /\ ~Confident(runs.loop[r].prediction)
          /\ runs.loop[r].shares = FZero
          /\ FGt(runs.loop[r].balance, FZero)
          /\ \E n \in 1..(Len(runs.loop[r].equityCurve) - 1) :
                runs.loop[r].equityCurve[n].price # runs.initialBalance

\* C24: winningTrades grows by one at a turn exactly when the turn sells a
\* position and the balance it makes is above maxBalance as the turn found
\* it; at every other turn winningTrades stays as it was.
C24_WinCountedAtNewPeak ==
    [][\A r \in 1..2 :
          TurnOf(r) =>
              After(r).winningTrades =
                  IF /\ FGt(Before(r).shares, FZero)
                     /\ After(r).shares = FZero
                     /\ FGt(After(r).balance, Before(r).maxBalance)
                  THEN Before(r).winningTrades + 1
                  ELSE Before(r).winningTrades]_vars

\* One run has sold above the peak and counts a win; the other one has
\* sold below the peak and counts none.
C24_Witness ==
    /\ runs.phase = "loop"
    /\ \E r \in 1..2 :
          runs.loop[r].liquidations = 1 /\ runs.loop[r].winningTrades = 1
    /\ \E r \in 1..2 :
          /\ runs.loop[r].liquidations = 1 /\ runs.loop[r].winningTrades = 0
          /\ FLt(runs.loop[r].balance, runs.loop[r].maxBalance)

\* The equities the run has recorded so far, and its peak after n turns: the
\* largest of the initial balance and the first n equities
Equity(b, n) == b.equityCurve[n].price

PeakAfter(b, initialBalance, n) ==
    CHOOSE m \in {initialBalance} \cup {Equity(b, k) : k \in 1..n} :
        /\ FGe(m, initialBalance)
        /\ \A k \in 1..n : FGe(m, Equity(b, k))

\* (maxBalance - equity) / maxBalance of the turn n; it is defined when the
\* peak is not 0
Drawdowns(b, initialBalance) ==
    {FDiv(FSub(PeakAfter(b, initialBalance, n), Equity(b, n)),
          PeakAfter(b, initialBalance, n)) :
        n \in {k \in 1..Len(b.equityCurve) : PeakAfter(b, initialBalance, k) # FZero}}

\* C25: after every turn maxBalance is the peak so far: at least the
\* initial balance and at least every equity recorded (so it never
\* decreases); maxDrawdown is the largest drawdown (maxBalance - equity) /
\* maxBalance of the turns so far, 0 when there is none, and lies between 0
\* and 1: the maxDrawdown returned lies between 0 and 100 percent.
C25_PeakAndDrawdown ==
    /\ runs.phase = "loop" =>
          \A r \in 1..2 : \A b \in {runs.loop[r]} :
              /\ FGe(b.maxBalance, runs.initialBalance)
              /\ \A n \in 1..Len(b.equityCurve) : FGe(b.maxBalance, Equity(b, n))
              /\ b.maxBalance = PeakAfter(b, runs.initialBalance, Len(b.equityCurve))
              /\ b.maxDrawdown \in {FZero} \cup Drawdowns(b, runs.initialBalance)
              /\ \A dd \in Drawdowns(b, runs.initialBalance) : FGe(b.maxDrawdown, dd)
              /\ FGe(b.maxDrawdown, FZero)
              /\ FGe(FromInt(1), b.maxDrawdown)
    /\ runs.phase = "done" =>
          \A r \in 1..2 :
              /\ FGe(runs.loop[r].maxDrawdown, FZero)
              /\ FGe(FromInt(100), runs.loop[r].maxDrawdown)

\* A run has returned whose equity fell from one turn to a later one and
\* also rose above the initial balance: its maxDrawdown is strictly between
\* 0 and 100 percent.
C25_Witness ==
    /\ runs.phase = "done"
    /\ \E r \in 1..2 :
          /\ FGt(runs.loop[r].maxDrawdown, FZero)
          /\ FLt(runs.loop[r].maxDrawdown, FromInt(100))
          /\ \E n \in 1..Len(runs.loop[r].equityCurve) :
                FGt(runs.loop[r].equityCurve[n].price, runs.initialBalance)
          /\ \E m, n \in 1..Len(runs.loop[r].equityCurve) :
                /\ m < n
                /\ FGt(runs.loop[r].equityCurve[m].price,
                       runs.loop[r].equityCurve[n].price)

\* The turn's snapshot reads oversold: the +40 node of the score applies
Oversold(snapshot) == FLt(snapshot.rsi, FromInt(30))

\* C28: runBacktest opens a position only at a turn whose snapshot has an RSI
\* below 30: at any other turn the prediction is never a BUY of confidence
\* above 60, and trades and shares stay as they were when the turn started
\* flat.
C28_EntersOnlyWhenOversold ==
    [][\A r \in 1..2 :
          TurnOf(r) =>
              /\ (After(r).prediction.signal = "BUY" /\ Confident(After(r).prediction))
                    => Oversold(After(r).indicators)
              /\ (Before(r).shares = FZero /\ After(r).trades # Before(r).trades)
                    => Oversold(After(r).indicators)
              /\ (Before(r).shares = FZero /\ After(r).shares # FZero)
                    => Oversold(After(r).indicators)]_vars

\* One run has entered and holds its position, and the other one has seen a
\* BUY of confidence exactly 60 at an RSI of 30 or more and stays out.
C28_Witness ==
    /\ runs.phase = "loop"
    /\ runs.i > startIdx
    /\ \E r \in 1..2 :
          /\ runs.loop[r].trades = 1 /\ FGt(runs.loop[r].shares, FZero)
    /\ \E r \in 1..2 :
          /\ runs.loop[r].prediction.signal = "BUY"
          /\ runs.loop[r].prediction.confidence = FromInt(60)
          /\ ~Oversold(runs.loop[r].indicators)
          /\ runs.loop[r].trades = 0 /\ runs.loop[r].shares = FZero

\* C29: with a positive initial balance, after every turn the account is
\* never in cash and in shares at once; the entries are one more than the
\* sales exactly while shares are held and as many otherwise; and
\* winningTrades <= sales <= trades.
C29_EntriesAndSalesAlternate ==
    (runs.phase = "loop" /\ FGt(runs.initialBalance, FZero)) =>
        \A r \in 1..2 : \A b \in {runs.loop[r]} :
            /\ ~(FGt(b.balance, FZero) /\ FGt(b.shares, FZero))
            /\ b.trades - b.liquidations = IF FGt(b.shares, FZero) THEN 1 ELSE 0
            /\ b.winningTrades <= b.liquidations
            /\ b.liquidations <= b.trades

\* With a positive initial balance one run has entered, sold and stays in
\* cash, and the other one holds the shares of its one entry.
C29_Witness ==
    /\ runs.phase = "loop"
    /\ FGt(runs.initialBalance, FZero)
    /\ \E r \in 1..2 :
          /\ runs.loop[r].trades = 1 /\ runs.loop[r].liquidations = 1
          /\ runs.loop[r].shares = FZero /\ FGt(runs.loop[r].balance, FZero)
    /\ \E r \in 1..2 :
          /\ runs.loop[r].trades = 1 /\ runs.loop[r].liquidations = 0
          /\ FGt(runs.loop[r].shares, FZero) /\ runs.loop[r].balance = FZero

(***************************************************************************)
(* Claims about the selection changing under the stream and the fetches,   *)
(* checked under SpecSwitch.                                               *)
(***************************************************************************)
\* A step of ws.onmessage, and the symbol and timeframe a socket streams
MessageStep == events' = events + 1 /\ selection' = selection

StreamOf(id) == [symbol |-> sockets[id].symbol, timeframe |-> sockets[id].timeframe]

\* C26: a message of the subscription to a symbol and a timeframe is merged
\* only into a series that was fetched for that symbol and timeframe: a
\* message that changes the published series finds a series fetched for
\* the stream of the open socket.
C26_TickMergedIntoItsOwnSeries ==
    [][(MessageStep /\ history' # history) =>
          \A id \in DOMAIN sockets : sockets[id].open => fetchedFor = StreamOf(id)]_vars

\* C27: a response to a call of updateMarketData made for another symbol or
\* timeframe than the one selected now leaves the published series and
\* views as they are.
C27_LateResponseIsDropped ==
    [][\A c \in calls :
          (c \notin calls' /\ c.who # 0
           /\ [symbol |-> c.symbol, timeframe |-> c.interval] # selection)
            => UNCHANGED published]_vars

\* A call of fetchCryptoData answered from the cache, and its key
HitStep == Len(log') = Len(log) + 1 /\ ~log'[Len(log')].issued

HitKey == log'[Len(log')].key

\* C30: a message of the stream leaves DATA_CACHE and the series it stores
\* as they are, and a call for a key stored within the TTL leaves them too
\* and returns the series as it is stored: that series is published when it
\* is longer than 50.
C30_TicksLeaveTheCacheAlone ==
    [][/\ MessageStep => DATA_CACHE' = DATA_CACHE
       /\ HitStep =>
             /\ DATA_CACHE' = DATA_CACHE
             /\ Fresh(DATA_CACHE, HitKey, now)
             /\ Len(Deref(DATA_CACHE[HitKey].data)) > MinPublished
                   => history' = Deref(DATA_CACHE[HitKey].data)]_vars

\* A message of a new bucket has been merged into the first series, and
\* then, the selection having gone away and come back, a call for the first
\* key was answered from the cache: the series published is the one stored,
\* without the candle of the message.
C30_Witness ==
    /\ received.kind = "kline"
    /\ received.t > LastBucket * IntervalMs("1h")
    /\ selection = [symbol |-> COINS[1], timeframe |-> "1h"]
    /\ effect.pc = "idle"
    /\ Len(log) = 3 /\ ~log[3].issued /\ log[3].key = FirstKey
    /\ Len(history) > MinPublished
    /\ history = Deref(DATA_CACHE[FirstKey].data)
    /\ fetchedFor = selection

====
